---- MODULE Spec2Model ----
(***************************************************************************)
(* A model of the two utility scripts of the repository:                   *)
(*                                                                         *)
(*   .gemini/parse_coverage.py          parse_jacoco_report: scans a       *)
(*       JaCoCo XML report and prints every source file of the             *)
(*       com/android/designcompose packages whose line coverage is below   *)
(*       50 percent.                                                       *)
(*   reference-apps/standalone-projects/export-standalone-project.py       *)
(*       copies a project tree to a staging directory and then to the      *)
(*       output directory, filtering local and build files.                *)
(*                                                                         *)
(* Specification Spec runs the coverage scan on every report of a bounded  *)
(* size; specification ExportSpec runs the exporter on every bounded       *)
(* project tree.                                                           *)
(***************************************************************************)
EXTENDS Integers, Sequences, FiniteSets, TLC

VARIABLES
    report,     \* the report file on disk: [exists, wellformed, packages]
    pc,         \* control point of parse_jacoco_report
    root,       \* the parsed tree's <package> children (tree.getroot())
    pkg_i,      \* position of the `for package` loop
    cls_i,      \* position of the `for class_elem` loop
    out,        \* standard output: the sequence of printed lines
    err,        \* the uncaught exception that ended the run, or "none"
    xpc,        \* control point of the export script
    project_dir,    \* the tree at args.project_dir, or Absent
    initial_copy,   \* the tree at initial_copy in the temporary directory
    out_dir,        \* the tree at args.out, or Absent
    xerr            \* the uncaught exception that ended the export, or "none"

covVars == <<report, pc, root, pkg_i, cls_i, out, err>>
expVars == <<xpc, project_dir, initial_copy, out_dir, xerr>>
vars == <<report, pc, root, pkg_i, cls_i, out, err,
          xpc, project_dir, initial_copy, out_dir, xerr>>

----------------------------------------------------------------------------
(* Bounds of the model.                                                    *)

\* Elements (package + class + counter) of a report.
MaxNodes == 5

\* Entries (files, directories and links, at any depth) of a project tree.
MaxEntries == 3

----------------------------------------------------------------------------
(* Strings.  TLC evaluates Len, \o, Head, Tail and SubSeq on strings, so   *)
(* names and printed lines are real character strings.                     *)

Char(s, i) == SubSeq(s, i, i)

DigitChars == "0123456789"

Digit(d) == Char(DigitChars, d + 1)

IsDigit(ch) == \E d \in 0..9 : Digit(d) = ch

DigitValue(ch) == CHOOSE d \in 0..9 : Digit(d) = ch

\* str.startswith
StartsWith(s, p) == Len(s) >= Len(p) /\ SubSeq(s, 1, Len(p)) = p

\* int(text) of an attribute holding decimal digits
RECURSIVE ParseInt(_)
ParseInt(s) ==
    IF Len(s) = 0 THEN 0
    ELSE 10 * ParseInt(SubSeq(s, 1, Len(s) - 1)) + DigitValue(Char(s, Len(s)))

\* the decimal digits of a natural number
RECURSIVE NatToStr(_)
NatToStr(n) ==
    IF n < 10 THEN Digit(n) ELSE NatToStr(n \div 10) \o Digit(n % 10)

----------------------------------------------------------------------------
(* parse_coverage.py: the report file.                                     *)
(*                                                                         *)
(* A report is the sequence of <package> children of the root element; a   *)
(* package has a name attribute and a sequence of <class> children; a      *)
(* class has a sourcefilename attribute and a sequence of <counter>        *)
(* children, each with the attributes type, missed and covered.  Attribute *)
(* values are text, as in the file.  The class's name attribute is read    *)
(* (line 13) and never used, so it is not modelled.                        *)

PREFIX == "com/android/designcompose"

PackageNames ==
    { "com/android/designcompose/x",    \* a package of the namespace
      "com/android/designcomposer",     \* starts with the prefix too
      "com/other/x" }                   \* does not start with the prefix

SourceFileNames == { "File.kt", "Bar.kt" }

\* <<missed, covered>>: no lines, exactly 50%, 45% and 16.666...%.
CountPairs == { <<"0", "0">>, <<"10", "10">>, <<"11", "9">>, <<"5", "1">> }

\* The <counter> elements: LINE counters, and one of another type.
Counters ==
    { [type |-> "LINE", missed |-> mc[1], covered |-> mc[2]] :
        mc \in CountPairs }
    \cup { [type |-> "INSTRUCTION", missed |-> "5", covered |-> "1"] }

\* The shape of a class list made of exactly n elements: the number of
\* counters of each class.
RECURSIVE ClassShapes(_)
ClassShapes(n) ==
    IF n = 0 THEN { <<>> }
    ELSE UNION { { <<k - 1>> \o rest : rest \in ClassShapes(n - k) } :
                 k \in 1..n }

\* The shape of a report made of exactly n elements: the class shapes of
\* each package.
RECURSIVE ReportShapes(_)
ReportShapes(n) ==
    IF n = 0 THEN { <<>> }
    ELSE UNION { { <<cs>> \o rest : cs \in ClassShapes(k - 1),
                                     rest \in ReportShapes(n - k) } :
                 k \in 1..n }

Shapes == UNION { ReportShapes(n) : n \in 0..MaxNodes }

RECURSIVE SumSeq(_)
SumSeq(s) == IF s = <<>> THEN 0 ELSE Head(s) + SumSeq(Tail(s))

\* Classes in the first i packages of a shape; counters in the first j
\* classes of a class shape.
ClassesBefore(shape, i) == SumSeq([p \in 1..i |-> Len(shape[p])])

CountersIn(classShape, j) == SumSeq(SubSeq(classShape, 1, j))

CountersBefore(shape, i) ==
    SumSeq([p \in 1..i |-> CountersIn(shape[p], Len(shape[p]))])

\* The report of a shape whose packages, classes and counters carry, in
\* document order, the names pn, the source file names fn and the counter
\* elements cn.
BuildReport(shape, pn, fn, cn) ==
    [i \in 1..Len(shape) |->
        [name |-> pn[i],
         classes |->
            [j \in 1..Len(shape[i]) |->
                [sourcefilename |-> fn[ClassesBefore(shape, i - 1) + j],
                 counters |->
                    [k \in 1..shape[i][j] |->
                        cn[CountersBefore(shape, i - 1)
                           + CountersIn(shape[i], j - 1) + k]]]]]]

----------------------------------------------------------------------------
(* parse_coverage.py: parse_jacoco_report.                                 *)

None == [none |-> TRUE]

Min(S) == CHOOSE x \in S : \A y \in S : x <= y

\* A parser that recovers from a cut file by returning what precedes the cut.
ET_parse_Lenient(file) ==
    IF ~file.exists THEN [raised |-> "FileNotFoundError", root |-> <<>>]
    ELSE [raised |-> "none", root |-> file.packages]

\* ET.parse(xml_file) followed by tree.getroot(): raises before anything
\* is returned when the file is absent or is not a well-formed document.
ET_parse(file) ==
    IF ~file.exists THEN [raised |-> "FileNotFoundError", root |-> <<>>]
    ELSE IF ~file.wellformed THEN [raised |-> "ParseError", root |-> <<>>]
    ELSE [raised |-> "none", root |-> file.packages]

\* The namespace test left out.
PackageSelected_All(package_name) == TRUE

\* not package_name.startswith('com/android/designcompose')  =>  continue
PackageSelected(package_name) == StartsWith(package_name, PREFIX)

\* class_elem.find('counter[@type="LINE"]'): the first matching child
FindLineCounter(class_elem) ==
    LET cs == class_elem.counters
        hits == { i \in 1..Len(cs) : cs[i].type = "LINE" }
    IN  IF hits = {} THEN None ELSE cs[Min(hits)]

\* The guard against an empty class left out.
HasLines_Always(total_lines) == TRUE

\* if total_lines > 0
HasLines(total_lines) == total_lines > 0

\* (covered_lines / total_lines) * 100, kept as the exact fraction
\* num / den.  The double the script computes differs from it by a relative
\* error below 2^-51, which changes neither the comparison with 50 nor the
\* two printed decimals for line counts a report can hold.
Coverage(covered_lines, total_lines) ==
    [num |-> covered_lines * 100, den |-> total_lines]

THRESHOLD == 50

\* A slip of the comparison: at most 50 instead of below 50.
BelowThreshold_AtMost(coverage) == coverage.num <= THRESHOLD * coverage.den

\* if coverage < 50
BelowThreshold(coverage) == coverage.num < THRESHOLD * coverage.den

\* Two decimals cut off instead of rounded.
FormatFixed2_Truncate(coverage) ==
    LET h == (coverage.num * 100) \div coverage.den
    IN  NatToStr(h \div 100) \o "." \o Digit((h % 100) \div 10) \o Digit(h % 10)

\* f'{coverage:.2f}': the nearest multiple of 0.01, a tie going to the even
\* one, with at least one integer digit and exactly two decimals.
FormatFixed2(coverage) ==
    LET q == (coverage.num * 100) \div coverage.den
        r == (coverage.num * 100) % coverage.den
        h == IF 2 * r > coverage.den THEN q + 1
             ELSE IF 2 * r < coverage.den THEN q
             ELSE IF q % 2 = 0 THEN q ELSE q + 1
    IN  NatToStr(h \div 100) \o "." \o Digit((h % 100) \div 10) \o Digit(h % 10)

\* f'{package_name}/{source_filename}: {coverage:.2f}%'
FormatLine(package_name, source_filename, coverage) ==
    package_name \o "/" \o source_filename \o ": "
        \o FormatFixed2(coverage) \o "%"

\* Lines collected newest first.
StdoutWrite_First(stdout, line) == <<line>> \o stdout

\* print(...)
StdoutWrite(stdout, line) == Append(stdout, line)

\* The loop body run once for every LINE counter of the class (findall in
\* place of find).
RECURSIVE CounterLines(_, _, _)
CounterLines(package_name, source_filename, counters) ==
    IF counters = <<>> THEN <<>>
    ELSE
        LET c == Head(counters)
            total_lines == ParseInt(c.missed) + ParseInt(c.covered)
            coverage == Coverage(ParseInt(c.covered), total_lines)
            here == IF c.type = "LINE" /\ HasLines(total_lines)
                                       /\ BelowThreshold(coverage)
                        THEN <<FormatLine(package_name, source_filename,
                                          coverage)>>
                        ELSE <<>>
        IN  here \o CounterLines(package_name, source_filename, Tail(counters))

ClassBody_EachCounter(package_name, class_elem) ==
    [lines |-> CounterLines(package_name, class_elem.sourcefilename,
                            class_elem.counters),
     raised |-> "none"]

\* The body of the `for class_elem` loop (lines 13-24) for one class: the
\* lines it prints and the exception it raises, if any.
ClassBody(package_name, class_elem) ==
    LET source_filename == class_elem.sourcefilename
        line_counter == FindLineCounter(class_elem)
    IN  IF line_counter = None THEN [lines |-> <<>>, raised |-> "none"]
        ELSE
            LET missed_lines == ParseInt(line_counter.missed)
                covered_lines == ParseInt(line_counter.covered)
                total_lines == missed_lines + covered_lines
            IN  IF ~HasLines(total_lines)
                    THEN [lines |-> <<>>, raised |-> "none"]
                ELSE IF total_lines = 0
                    THEN [lines |-> <<>>, raised |-> "ZeroDivisionError"]
                ELSE
                    LET coverage == Coverage(covered_lines, total_lines)
                    IN  IF BelowThreshold(coverage)
                            THEN [lines |-> <<FormatLine(package_name,
                                                source_filename, coverage)>>,
                                  raised |-> "none"]
                            ELSE [lines |-> <<>>, raised |-> "none"]

RECURSIVE PrintAll(_, _)
PrintAll(stdout, lines) ==
    IF lines = <<>> THEN stdout
    ELSE PrintAll(StdoutWrite(stdout, Head(lines)), Tail(lines))

\* The file the script is run on: absent, cut short (packages is then what
\* precedes the cut), or a complete report.
CovInit ==
    /\ \E shape \in Shapes :
         \E pn \in [1..Len(shape) -> PackageNames],
            fn \in [1..ClassesBefore(shape, Len(shape)) -> SourceFileNames],
            cn \in [1..CountersBefore(shape, Len(shape)) -> Counters],
            present \in BOOLEAN, complete \in BOOLEAN :
              /\ present \/ (shape = <<>> /\ ~complete)
              /\ report = [exists |-> present, wellformed |-> complete,
                           packages |-> BuildReport(shape, pn, fn, cn)]
    /\ pc = "start"
    /\ root = <<>>
    /\ pkg_i = 0
    /\ cls_i = 0
    /\ out = <<>>
    /\ err = "none"

\* Lines 4-5: the whole file is parsed before the scan starts.
ParseReport ==
    /\ pc = "start"
    /\ LET r == ET_parse(report)
       IN  IF r.raised # "none"
               THEN /\ pc' = "raised"
                    /\ err' = r.raised
                    /\ UNCHANGED <<root, pkg_i>>
               ELSE /\ pc' = "package"
                    /\ root' = r.root
                    /\ pkg_i' = 1
                    /\ err' = err
    /\ UNCHANGED <<report, cls_i, out, expVars>>

\* Lines 7-10: a package outside the namespace is skipped whole.
SkipPackage ==
    /\ pc = "package"
    /\ pkg_i <= Len(root)
    /\ ~PackageSelected(root[pkg_i].name)
    /\ pkg_i' = pkg_i + 1
    /\ UNCHANGED <<report, pc, root, cls_i, out, err, expVars>>

\* Lines 7-12: a package of the namespace; its classes are scanned next.
EnterPackage ==
    /\ pc = "package"
    /\ pkg_i <= Len(root)
    /\ PackageSelected(root[pkg_i].name)
    /\ pc' = "class"
    /\ cls_i' = 1
    /\ UNCHANGED <<report, root, pkg_i, out, err, expVars>>

\* Lines 13-24: one iteration of the class loop.
VisitClass ==
    /\ pc = "class"
    /\ cls_i <= Len(root[pkg_i].classes)
    /\ LET b == ClassBody(root[pkg_i].name, root[pkg_i].classes[cls_i])
       IN  /\ out' = PrintAll(out, b.lines)
           /\ IF b.raised # "none"
                  THEN pc' = "raised" /\ err' = b.raised /\ cls_i' = cls_i
                  ELSE pc' = pc /\ err' = err /\ cls_i' = cls_i + 1
    /\ UNCHANGED <<report, root, pkg_i, expVars>>

\* Line 12: the class loop of the package is exhausted.
LeavePackage ==
    /\ pc = "class"
    /\ cls_i > Len(root[pkg_i].classes)
    /\ pc' = "package"
    /\ pkg_i' = pkg_i + 1
    /\ UNCHANGED <<report, root, cls_i, out, err, expVars>>

\* Line 7: the package loop is exhausted and the function returns.
FinishScan ==
    /\ pc = "package"
    /\ pkg_i > Len(root)
    /\ pc' = "done"
    /\ UNCHANGED <<report, root, pkg_i, cls_i, out, err, expVars>>

CovNext ==
    \/ ParseReport
    \/ SkipPackage
    \/ EnterPackage
    \/ VisitClass
    \/ LeavePackage
    \/ FinishScan

----------------------------------------------------------------------------
(* export-standalone-project.py: the file system.                          *)
(*                                                                         *)
(* A directory maps the names of its entries to nodes.  A node is a        *)
(* regular file with its content, a directory, or a symbolic link with the *)
(* node it resolves to (Dangling when it resolves to nothing).  The        *)
(* temporary directory and args.out lie outside the project tree.          *)

Absent == [kind |-> "absent"]

Dangling == [kind |-> "dangling"]

File(c) == [kind |-> "file", content |-> c]

Dir(e) == [kind |-> "dir", entries |-> e]

Link(t) == [kind |-> "link", target |-> t]

EmptyDir == Dir(<<>>)

Names == { ".git", "build", "local.properties", "bin", "src", "Main.kt" }

\* The entries a directory below the project's top level may hold.
LeafNodes == { File("a"), Link(File("t")), Link(Dangling) }

\* The directories of at most k entries, all of them leaves.
LeafDirs(k) ==
    UNION { { Dir(e) : e \in [T -> LeafNodes] } :
            T \in { T \in SUBSET Names : Cardinality(T) <= k } }

\* The nodes at the project's top level whose directories hold at most k
\* entries.
TopNodes(k) ==
    LeafNodes \cup LeafDirs(k) \cup { Link(d) : d \in LeafDirs(k) }

\* The number of entries, at any depth, below a node.  A link counts as
\* one entry, whatever it resolves to, plus the entries of a directory it
\* resolves to.
RECURSIVE Entries(_)
EntriesIn(e) ==
    LET RECURSIVE Sum(_)
        Sum(S) == IF S = {} THEN 0
                  ELSE LET n == CHOOSE n \in S : TRUE
                       IN  1 + Entries(e[n]) + Sum(S \ {n})
    IN  Sum(DOMAIN e)

Entries(node) ==
    IF node.kind = "dir" THEN EntriesIn(node.entries)
    ELSE IF node.kind = "link" /\ node.target.kind = "dir"
        THEN EntriesIn(node.target.entries)
    ELSE 0

\* What args.out holds before the run.
OutDirs == { Absent, EmptyDir, Dir([n \in {"Main.kt"} |-> File("old")]) }

----------------------------------------------------------------------------
(* export-standalone-project.py: shutil.copytree as the script calls it.   *)

\* fnmatch.fnmatch(name, pat) for patterns of literal characters, * and ?
RECURSIVE FnMatch(_, _)
FnMatch(name, pat) ==
    IF pat = "" THEN name = ""
    ELSE IF Head(pat) = "*"
        THEN \E k \in 0..Len(name) :
                FnMatch(SubSeq(name, k + 1, Len(name)), Tail(pat))
    ELSE /\ name # ""
         /\ (Head(pat) = "?" \/ Head(pat) = Head(name))
         /\ FnMatch(Tail(name), Tail(pat))

\* The pattern list with 'bin' forgotten.
IGNORE_PATTERNS_NoBin == { ".*", "build", "local.properties" }

\* shutil.ignore_patterns('.*', 'build', 'local.properties', 'bin')
IGNORE_PATTERNS == { ".*", "build", "local.properties", "bin" }

\* ignore_patterns(path, names): the names matching one of the patterns
ignore_patterns(names) ==
    { n \in names : \E pat \in IGNORE_PATTERNS : FnMatch(n, pat) }

\* shutil.copytree(src, dst, symlinks, ignore) into a directory it creates:
\* the tree made at dst, and whether an entry could not be copied (the
\* errors copytree collects and raises as shutil.Error once it is through).
\* An ignored name is passed over; a link is made again when symlinks is
\* set, and is otherwise followed: a directory it resolves to is copied by
\* a nested copytree, a file by copy2, and a dangling one is an error.
RECURSIVE copytree(_, _)
copy_entry(node, symlinks) ==
    IF node.kind = "link" /\ symlinks
        THEN [made |-> TRUE, node |-> node, errors |-> FALSE]
    ELSE
        LET real == IF node.kind = "link" THEN node.target ELSE node
        IN  IF real.kind = "dangling"
                THEN [made |-> FALSE, node |-> Absent, errors |-> TRUE]
            ELSE IF real.kind = "dir"
                THEN LET r == copytree(real, symlinks)
                     IN  [made |-> TRUE, node |-> r.tree, errors |-> r.errors]
            ELSE [made |-> TRUE, node |-> File(real.content), errors |-> FALSE]

copytree(src, symlinks) ==
    LET names == DOMAIN src.entries
        ignored_names == ignore_patterns(names)
        copied == [n \in names \ ignored_names |->
                        copy_entry(src.entries[n], symlinks)]
        made == { n \in DOMAIN copied : copied[n].made }
    IN  [tree |-> Dir([n \in made |-> copied[n].node]),
         errors |-> \E n \in DOMAIN copied : copied[n].errors]

\* Both calls made with symlinks=True: links are made again, not followed.
copytree_call_KeepLinks(src, dst, symlinks) ==
    IF src = Absent THEN [raised |-> "FileNotFoundError", dst |-> dst]
    ELSE IF dst # Absent THEN [raised |-> "FileExistsError", dst |-> dst]
    ELSE LET r == copytree(src, TRUE)
         IN  [raised |-> IF r.errors THEN "shutil.Error" ELSE "none",
              dst |-> r.tree]

\* A copytree call as a whole: os.scandir(src) raises when src is absent,
\* os.makedirs(dst) raises when dst exists (dirs_exist_ok is left False),
\* and the collected errors are raised after the copy.
copytree_call(src, dst, symlinks) ==
    IF src = Absent THEN [raised |-> "FileNotFoundError", dst |-> dst]
    ELSE IF dst # Absent THEN [raised |-> "FileExistsError", dst |-> dst]
    ELSE LET r == copytree(src, symlinks)
         IN  [raised |-> IF r.errors THEN "shutil.Error" ELSE "none",
              dst |-> r.tree]

\* Lines 46-50: shutil.copytree(src=args.project_dir, dst=initial_copy,
\*                              symlinks=False, ignore=ignore_patterns)
InitialCopy(src, dst) == copytree_call(src, dst, FALSE)

\* The second call made with dirs_exist_ok=True: an existing out_dir is
\* copied into, entry by entry.
FinalCopy_Merge(src, dst) ==
    IF dst = Absent \/ src = Absent THEN copytree_call(src, dst, FALSE)
    ELSE LET r == copytree(src, FALSE)
             both == DOMAIN dst.entries \cup DOMAIN r.tree.entries
         IN  [raised |-> IF r.errors THEN "shutil.Error" ELSE "none",
              dst |-> Dir([n \in both |->
                             IF n \in DOMAIN r.tree.entries
                                 THEN r.tree.entries[n]
                                 ELSE dst.entries[n]])]

\* Lines 54-58: shutil.copytree(src=initial_copy, dst=out_dir,
\*                              symlinks=False, ignore=ignore_patterns)
FinalCopy(src, dst) == copytree_call(src, dst, FALSE)

----------------------------------------------------------------------------
(* export-standalone-project.py: the script.                               *)

\* The project trees of at most MaxEntries entries, an absent project
\* directory, and what args.out holds.
ExpInit ==
    /\ xpc = "start"
    /\ initial_copy = Absent
    /\ xerr = "none"
    /\ \/ project_dir = Absent
       \/ \E T \in SUBSET Names :
             /\ Cardinality(T) <= MaxEntries
             /\ \E e \in [T -> TopNodes(MaxEntries - Cardinality(T))] :
                   /\ EntriesIn(e) <= MaxEntries
                   /\ project_dir = Dir(e)
    /\ out_dir \in OutDirs

\* Lines 38-50: the temporary directory is made and the project is copied
\* to initial_copy in it.
StagingCopy ==
    /\ xpc = "start"
    /\ LET r == InitialCopy(project_dir, initial_copy)
       IN  /\ initial_copy' = r.dst
           /\ IF r.raised # "none"
                  THEN xpc' = "raised" /\ xerr' = r.raised
                  ELSE xpc' = "staged" /\ xerr' = xerr
    /\ UNCHANGED <<project_dir, out_dir, covVars>>

\* Lines 54-58: initial_copy is copied to out_dir.
OutputCopy ==
    /\ xpc = "staged"
    /\ LET r == FinalCopy(initial_copy, out_dir)
       IN  /\ out_dir' = r.dst
           /\ IF r.raised # "none"
                  THEN xpc' = "raised" /\ xerr' = r.raised
                  ELSE xpc' = "done" /\ xerr' = xerr
    /\ UNCHANGED <<project_dir, initial_copy, covVars>>

ExpNext ==
    \/ StagingCopy
    \/ OutputCopy

----------------------------------------------------------------------------
(* The two scripts are run apart: each specification runs one of them and  *)
(* leaves the other where it starts.                                       *)

ExpIdle ==
    /\ xpc = "idle"
    /\ project_dir = Absent
    /\ initial_copy = Absent
    /\ out_dir = Absent
    /\ xerr = "none"

CovIdle ==
    /\ report = [exists |-> FALSE, wellformed |-> FALSE, packages |-> <<>>]
    /\ pc = "idle"
    /\ root = <<>>
    /\ pkg_i = 0
    /\ cls_i = 0
    /\ out = <<>>
    /\ err = "none"

Init == CovInit /\ ExpIdle

Next == CovNext

Spec == Init /\ [][Next]_vars

ExportInit == ExpInit /\ CovIdle

ExportNext == ExpNext

ExportSpec == ExportInit /\ [][ExportNext]_vars

----------------------------------------------------------------------------
(* What the claims speak of, stated on the report itself.                  *)

\* The package's name starts with the namespace prefix.
InNamespace(package) ==
    /\ Len(package.name) >= Len("com/android/designcompose")
    /\ SubSeq(package.name, 1, Len("com/android/designcompose"))
         = "com/android/designcompose"

\* The class has a counter of type LINE.  The report format gives a class
\* at most one; should a file repeat it, the class's LINE counter is the
\* first in document order.
HasLineCounter(class) == \E i \in 1..Len(class.counters) :
                            class.counters[i].type = "LINE"

LineCounterOf(class) ==
    class.counters[CHOOSE i \in 1..Len(class.counters) :
                      /\ class.counters[i].type = "LINE"
                      /\ \A j \in 1..(i - 1) : class.counters[j].type # "LINE"]

MissedOf(class) == ParseInt(LineCounterOf(class).missed)

CoveredOf(class) == ParseInt(LineCounterOf(class).covered)

\* The coverage percentage of the class is defined.
CoverageDefined(class) ==
    HasLineCounter(class) /\ MissedOf(class) + CoveredOf(class) > 0

\* covered / (missed + covered) * 100 < 50
SubThreshold(class) ==
    CoveredOf(class) * 100 < 50 * (MissedOf(class) + CoveredOf(class))

\* The class the scan is about to visit.
AtClass == pc = "class" /\ cls_i <= Len(root[pkg_i].classes)

CurrentPackage == root[pkg_i]

CurrentClass == root[pkg_i].classes[cls_i]

\* The scan has gone past class j of package i.
Passed(i, j) == i < pkg_i \/ (i = pkg_i /\ pc = "class" /\ j < cls_i)

\* A class of the namespace with defined, sub-threshold coverage.
Qualifies(i, j) ==
    /\ InNamespace(root[i])
    /\ CoverageDefined(root[i].classes[j])
    /\ SubThreshold(root[i].classes[j])

ClassPositions ==
    UNION { { <<i, j>> : j \in 1..Len(root[i].classes) } : i \in 1..Len(root) }

----------------------------------------------------------------------------
(* C1: the scan enters every package whose name starts with the prefix at  *)
(* its first class and leaves it only past its last class; when it visits  *)
(* a class of such a package whose LINE counter has missed + covered > 0,  *)
(* it prints one line if covered / (missed + covered) * 100 < 50 and       *)
(* prints nothing otherwise, and moves on to the next class; so 10 missed, *)
(* 10 covered prints nothing and 11 missed, 9 covered prints a line.       *)
C1_EmittedIffBelowThreshold ==
    [][ /\ (AtClass /\ InNamespace(CurrentPackage)
                    /\ CoverageDefined(CurrentClass))
           => /\ pc' = "class" /\ pkg_i' = pkg_i /\ cls_i' = cls_i + 1
              /\ IF SubThreshold(CurrentClass)
                     THEN Len(out') = Len(out) + 1
                     ELSE out' = out
        /\ (pc = "package" /\ pkg_i <= Len(root) /\ InNamespace(root[pkg_i]))
           => (pc' = "class" /\ pkg_i' = pkg_i /\ cls_i' = 1)
        /\ (pc = "class" /\ pkg_i' # pkg_i)
           => (pkg_i' = pkg_i + 1 /\ cls_i > Len(root[pkg_i].classes))
        /\ (pc # "done" /\ pc' = "done") => pkg_i > Len(root) ]_vars

\* The scan has printed a line for a class with 11 missed and 9 covered
\* lines and then passed a class with 10 and 10 without printing.
C1_Witness ==
    /\ pc = "class" /\ cls_i = 3 /\ Len(root[pkg_i].classes) = 2
    /\ LET c1 == root[pkg_i].classes[1]
           c2 == root[pkg_i].classes[2]
       IN  /\ CoverageDefined(c1) /\ MissedOf(c1) = 11 /\ CoveredOf(c1) = 9
           /\ CoverageDefined(c2) /\ MissedOf(c2) = 10 /\ CoveredOf(c2) = 10
    /\ Len(out) = 1

----------------------------------------------------------------------------
(* The line a qualifying class is reported with, and the output of a whole *)
(* scan of a sequence of packages that tests no package name.              *)

ExpectedLine(package_name, class) ==
    FormatLine(package_name, class.sourcefilename,
               Coverage(CoveredOf(class), MissedOf(class) + CoveredOf(class)))

RECURSIVE LinesOfClasses(_, _)
LinesOfClasses(package_name, classes) ==
    IF classes = <<>> THEN <<>>
    ELSE (IF CoverageDefined(Head(classes)) /\ SubThreshold(Head(classes))
              THEN <<ExpectedLine(package_name, Head(classes))>>
              ELSE <<>>)
         \o LinesOfClasses(package_name, Tail(classes))

RECURSIVE LinesOfPackages(_)
LinesOfPackages(packages) ==
    IF packages = <<>> THEN <<>>
    ELSE LinesOfClasses(Head(packages).name, Head(packages).classes)
         \o LinesOfPackages(Tail(packages))

\* Position a precedes position b in document order, or is b.
NotAfter(a, b) == a[1] < b[1] \/ (a[1] = b[1] /\ a[2] <= b[2])

\* The number of qualifying classes up to position a in document order.
Rank(a) ==
    Cardinality({ b \in ClassPositions :
                    NotAfter(b, a) /\ Qualifies(b[1], b[2]) })

----------------------------------------------------------------------------
(* C2: while the scan is at a package whose name does not start with the   *)
(* prefix nothing is printed, whatever its classes hold, and the finished  *)
(* scan has printed exactly what a scan of the report without those        *)
(* packages prints.                                                        *)
C2_OtherPackagesSilent ==
    /\ [](pc = "done" => out = LinesOfPackages(SelectSeq(root, InNamespace)))
    /\ [][ (pkg_i \in 1..Len(root) /\ ~InNamespace(root[pkg_i]))
           => out' = out ]_vars

\* The finished scan went past a package outside the namespace that holds
\* a class at 16.67% and visited a package of the namespace as well.
C2_Witness ==
    /\ pc = "done"
    /\ \E i, k \in 1..Len(root) :
          /\ ~InNamespace(root[i])
          /\ \E j \in 1..Len(root[i].classes) :
                /\ CoverageDefined(root[i].classes[j])
                /\ SubThreshold(root[i].classes[j])
          /\ InNamespace(root[k])
          /\ root[k].classes # <<>>

----------------------------------------------------------------------------
(* C3: visiting a class that has no LINE counter, or whose LINE counter    *)
(* has missed + covered = 0, prints nothing and raises nothing, and no     *)
(* run ends in a division by zero.                                         *)
C3_UndefinedCoverageSilent ==
    /\ [](err # "ZeroDivisionError")
    /\ [][ (AtClass /\ ~CoverageDefined(CurrentClass))
           => (out' = out /\ err' = "none" /\ pc' = "class"
                          /\ cls_i' = cls_i + 1) ]_vars

\* The scan has passed a class with only an INSTRUCTION counter and a class
\* whose LINE counter is 0 missed, 0 covered.
C3_Witness ==
    /\ pc = "class" /\ cls_i = 3
    /\ LET c1 == root[pkg_i].classes[1]
           c2 == root[pkg_i].classes[2]
       IN  /\ c1.counters # <<>> /\ ~HasLineCounter(c1)
           /\ HasLineCounter(c2) /\ MissedOf(c2) + CoveredOf(c2) = 0
    /\ out = <<>>

----------------------------------------------------------------------------
----------------------------------------------------------------------------
(* C5: at every point of the scan the number of printed lines is the       *)
(* number of qualifying classes the scan has gone past.                    *)
C5_OneLinePerQualifyingClass ==
    Len(out) = Cardinality({ a \in ClassPositions :
                               Passed(a[1], a[2]) /\ Qualifies(a[1], a[2]) })

\* The finished scan printed one line for a class with two LINE counters.
C5_Witness ==
    /\ pc = "done" /\ Len(out) = 1
    /\ \E a \in ClassPositions :
          LET cs == root[a[1]].classes[a[2]].counters
          IN  /\ Qualifies(a[1], a[2])
              /\ Len(cs) = 2 /\ cs[1].type = "LINE" /\ cs[2].type = "LINE"
              /\ cs[2].missed = "5"

----------------------------------------------------------------------------
(* C8: when the report file is absent or cut short, the run ends with the  *)
(* exception of the parse, nothing is printed and no tree is scanned.      *)
C8_ParseFailureIsFatal ==
    (~report.exists \/ ~report.wellformed)
    => /\ out = <<>>
       /\ root = <<>>
       /\ pc \in {"start", "raised"}
       /\ pc = "raised" =>
             err = IF report.exists THEN "ParseError" ELSE "FileNotFoundError"

\* The run on a cut file, whose part before the cut holds a qualifying
\* class, has ended with ParseError.
C8_Witness ==
    /\ pc = "raised" /\ err = "ParseError"
    /\ \E i \in 1..Len(report.packages) :
          /\ InNamespace(report.packages[i])
          /\ \E j \in 1..Len(report.packages[i].classes) :
                /\ CoverageDefined(report.packages[i].classes[j])
                /\ SubThreshold(report.packages[i].classes[j])

----------------------------------------------------------------------------
(* The form of a printed line.                                             *)

AllDigits(s) == \A i \in 1..Len(s) : IsDigit(Char(s, i))

\* text is digits "." digit digit, without a superfluous leading zero, and
\* its value in hundredths is the nearest to 100 * covered / total.
IsPercentage(text, covered, total) ==
    /\ Len(text) >= 4
    /\ Char(text, Len(text) - 2) = "."
    /\ LET int == SubSeq(text, 1, Len(text) - 3)
           frac == SubSeq(text, Len(text) - 1, Len(text))
           h == 100 * ParseInt(int) + ParseInt(frac)
           d == h * total - 10000 * covered
       IN  /\ AllDigits(int) /\ AllDigits(frac)
           /\ (Len(int) > 1 => Char(int, 1) # "0")
           /\ 2 * d <= total /\ -2 * d <= total

IsReportLine(line, package, class) ==
    LET head == package.name \o "/" \o class.sourcefilename \o ": "
    IN  /\ Len(line) > Len(head) + 1
        /\ SubSeq(line, 1, Len(head)) = head
        /\ Char(line, Len(line)) = "%"
        /\ IsPercentage(SubSeq(line, Len(head) + 1, Len(line) - 1),
                        CoveredOf(class), MissedOf(class) + CoveredOf(class))

(* C9: a printed line is the package's name, "/", the class's source file  *)
(* name, ": ", the percentage and "%", where the percentage is written as  *)
(* integer digits, a point and exactly two decimals, and is the multiple   *)
(* of 0.01 nearest to covered / (missed + covered) * 100.                  *)
C9_LineFormat ==
    [][ out' # out
        => /\ AtClass
           /\ Len(out') = Len(out) + 1
           /\ SubSeq(out', 1, Len(out)) = out
           /\ CoverageDefined(CurrentClass)
           /\ IsReportLine(out'[Len(out')], CurrentPackage, CurrentClass) ]_vars

\* The line for 11 missed and 9 covered lines, then a percentage that is
\* rounded up.
C9_Witness ==
    out = << "com/android/designcompose/x/File.kt: 45.00%",
             "com/android/designcompose/x/Bar.kt: 16.67%" >>

----------------------------------------------------------------------------
(* What the exporter's claims speak of, stated on the trees themselves.    *)

\* The name begins with '.', or is 'build', 'local.properties' or 'bin'.
Excluded(name) ==
    Char(name, 1) = "." \/ name \in { "build", "local.properties", "bin" }

NoneExcluded(path) == \A k \in 1..Len(path) : ~Excluded(path[k])

\* What a path component stands for: a link stands for what it resolves to.
Resolve(node) == IF node.kind = "link" THEN node.target ELSE node

\* The relative paths of the entries below a node.
RECURSIVE PathsOf(_)
PathsOf(node) ==
    LET r == Resolve(node)
    IN  IF r.kind # "dir" THEN {}
        ELSE UNION { { <<n>> } \cup { <<n>> \o q : q \in PathsOf(r.entries[n]) } :
                     n \in DOMAIN r.entries }

\* The entry at a relative path below a node.
RECURSIVE NodeAt(_, _)
NodeAt(node, path) ==
    IF path = <<>> THEN node
    ELSE NodeAt(Resolve(node).entries[Head(path)], Tail(path))

\* The entry o of the output is the entry s of the source, a link being
\* followed: the same kind, and for a file the same content.
SameEntry(o, s) ==
    /\ o.kind = Resolve(s).kind
    /\ o.kind = "file" => o.content = Resolve(s).content

\* The links of a tree, by path.
LinksOf(tree) == { p \in PathsOf(tree) : NodeAt(tree, p).kind = "link" }

----------------------------------------------------------------------------
(* C6: after a successful export the paths of the output tree are the      *)
(* paths of the project tree none of whose components is excluded, and at  *)
(* each of them the output holds the project's entry: the same kind and,   *)
(* for a file, the same content.                                           *)
C6_ExportIsFilteredCopy ==
    xpc = "done"
    => /\ PathsOf(out_dir) = { p \in PathsOf(project_dir) : NoneExcluded(p) }
       /\ \A p \in PathsOf(out_dir) :
             SameEntry(NodeAt(out_dir, p), NodeAt(project_dir, p))

\* A project holding build and src/Main.kt has been exported as
\* src/Main.kt alone.
C6_Witness ==
    /\ xpc = "done"
    /\ PathsOf(project_dir) = { <<"build">>, <<"src">>, <<"src", "Main.kt">> }
    /\ NodeAt(project_dir, <<"src", "Main.kt">>).kind = "file"
    /\ PathsOf(out_dir) = { <<"src">>, <<"src", "Main.kt">> }

----------------------------------------------------------------------------
(* C7 as claimed: after a successful export the output holds no link, and  *)
(* at the path of every link of the project that is not excluded it holds  *)
(* a file with the content of the link's target, or a directory with the   *)
(* whole content of the target directory.                                  *)
C7_LinkHoldsWholeTarget ==
    xpc = "done"
    => /\ LinksOf(out_dir) = {}
       /\ \A p \in LinksOf(project_dir) :
             NoneExcluded(p)
             => LET o == NodeAt(out_dir, p)
                    t == NodeAt(project_dir, p).target
                IN  /\ p \in PathsOf(out_dir)
                    /\ SameEntry(o, t)
                    /\ PathsOf(o) = PathsOf(t)
                    /\ \A q \in PathsOf(o) : SameEntry(NodeAt(o, q), NodeAt(t, q))

(* C7: after a successful export the output holds no link, and at the path *)
(* of every link of the project that is not excluded it holds a file with  *)
(* the content of the link's target, or a directory with the content of    *)
(* the target directory less the entries that are excluded.                *)
C7_LinksDereferenced ==
    xpc = "done"
    => /\ LinksOf(out_dir) = {}
       /\ \A p \in LinksOf(project_dir) :
             NoneExcluded(p)
             => LET o == NodeAt(out_dir, p)
                    t == NodeAt(project_dir, p).target
                IN  /\ p \in PathsOf(out_dir)
                    /\ SameEntry(o, t)
                    /\ PathsOf(o) = { q \in PathsOf(t) : NoneExcluded(q) }
                    /\ \A q \in PathsOf(o) : SameEntry(NodeAt(o, q), NodeAt(t, q))

\* A project with a link to a file and a link to a directory that holds
\* Main.kt has been exported.
C7_Witness ==
    /\ xpc = "done"
    /\ \E m, n \in DOMAIN project_dir.entries \cap DOMAIN out_dir.entries :
          /\ project_dir.entries[m] = Link(File("t"))
          /\ out_dir.entries[m] = File("t")
          /\ project_dir.entries[n].kind = "link"
          /\ project_dir.entries[n].target.kind = "dir"
          /\ out_dir.entries[n] = Dir([k \in {"Main.kt"} |-> File("a")])

----------------------------------------------------------------------------
(* C10: when out_dir exists before the run, no step changes it or the      *)
(* project tree, the run never completes, and once the staging copy has    *)
(* been made the run ends in FileExistsError.                              *)
C10_ExistingOutputUntouched ==
    [][ out_dir # Absent
        => /\ out_dir' = out_dir
           /\ project_dir' = project_dir
           /\ xpc' # "done"
           /\ xpc = "staged" => (xpc' = "raised" /\ xerr' = "FileExistsError")
      ]_vars

\* The export of a project holding Main.kt to an out_dir that holds an
\* older Main.kt has ended in FileExistsError after the staging copy.
C10_Witness ==
    /\ xpc = "raised" /\ xerr = "FileExistsError"
    /\ initial_copy = Dir([n \in {"Main.kt"} |-> File("a")])
    /\ out_dir = Dir([n \in {"Main.kt"} |-> File("old")])

====
